---- MODULE Spec2Model ----
(***************************************************************************)
(* A model of the tslinquery sequence engine: the cursor protocol of the   *)
(* Take / AppendPrepend / Generator stages (with their array-specialised   *)
(* twins) and the terminal operations of IterableQueryBase.                *)
(*                                                                         *)
(* Two specifications are given.  Spec drives cursors step by step: a      *)
(* stage is built over an array, cursors are obtained from it and advanced *)
(* one next() at a time.  SpecTerm applies one terminal operation of the   *)
(* facade to an input handle and records what it returns.                  *)
(***************************************************************************)
EXTENDS Integers, Sequences, FiniteSets, TLC

VARIABLES
    source,   \* the upstream iterable the stage (or the terminal call) is over
    op,       \* the call that was made: its name and arguments
    thrown,   \* TRUE once a call has raised an Error
    objs,     \* the stage objects and the cursor objects, by reference
    ref,      \* for each cursor slot, the object it refers to ("none" before)
    hist,     \* for each cursor slot, the IteratorResults its next() calls returned
    heap,     \* position of the one-shot host iterator; pulls and generator calls
    result    \* what the terminal operation returned (SpecTerm)

vars == <<source, op, thrown, objs, ref, hist, heap, result>>

----------------------------------------------------------------------------
(* Bounds *)

MaxLen == 3

MaxCalls == MaxLen + 2

\* elements of the arrays the cursor-level specification is run over
SmallElems == {0, 1}

\* items handed to append / prepend
Items == {0, 2}

\* counts handed to take / takeLast and lengths handed to generate
Counts == (-2) .. (MaxLen + 1)

SeqsUpTo(S, n) == UNION {[1 .. k -> S] : k \in 0 .. n}

Min2(a, b) == IF a < b THEN a ELSE b

----------------------------------------------------------------------------
(* JavaScript values: a number or undefined *)

Undef == [def |-> FALSE, val |-> 0]

Val(n) == [def |-> TRUE, val |-> n]

\* if (x): undefined and 0 are falsy
Truthy(x) == x.def /\ x.val # 0

\* x === y
StrictEq(x, y) == x = y

----------------------------------------------------------------------------
(* The cursor protocol *)

iteratorDone == [done |-> TRUE, value |-> Undef]

iteratorResult(v) == [done |-> FALSE, value |-> v]

Thrown == [kind |-> "throw"]

NoObj == [kind |-> "none"]

\* nothing pulled yet, no generator call made, no cursor requested, the one-shot
\* iterator at its start
FreshHeap == [pos |-> 0, pulls |-> 0, calls |-> 0, iters |-> 0]

\* this[Symbol.iterator]() was called once more by an operation of the facade
Requested(h) == [h EXCEPT !.iters = @ + 1]

\* a JavaScript array as an iterable
ArrayOf(items) == [kind |-> "array", items |-> items]

\* new IterableArrayQuery(array): the array-backed handle
ArrayQuery(items) == [kind |-> "arrayQuery", items |-> items]

\* new IterableQuery(iterable): the generic handle
Query(iterable) == [kind |-> "query", iterable |-> iterable]

\* a host iterator object (map.entries(), a generator object): its
\* [Symbol.iterator]() returns itself, so every cursor shares heap.pos
OneShot(items) == [kind |-> "oneshot", items |-> items]

\* the generator functions handed to Query.generate: (index, prev) => value
Generators == {"index", "accum"}

GenApply(g, index, prev) ==
    IF g = "index" THEN Val(index)
    ELSE Val((IF prev.def THEN prev.val ELSE 0) + index + 1)

RECURSIVE GetIterator(_)
RECURSIVE CursorNext(_, _)

\* new TakeIterable(iterable, count)
TakeNewNoCheck(iterable, count) ==
    [kind |-> "take", source |-> iterable, iterator |-> GetIterator(iterable),
     count |-> count, index |-> 0]

TakeNew(iterable, count) ==
    IF count < 0 THEN Thrown
    ELSE [kind |-> "take", source |-> iterable, iterator |-> GetIterator(iterable),
          count |-> count, index |-> 0]

\* new TakeArrayIterable(array, count)
TakeArrayNew(array, count) ==
    IF count < 0 THEN Thrown
    ELSE [kind |-> "takeArray", source |-> array, count |-> count, index |-> 0]

\* new AppendPrependIterable(iterable, item, append)
AppendPrependNew(iterable, item, append) ==
    [kind |-> "appendPrepend", source |-> iterable, iterator |-> GetIterator(iterable),
     item |-> item, append |-> append, hasItem |-> TRUE]

\* new AppendPrependArrayIterable(array, item, append)
AppendPrependArrayNew(array, item, append) ==
    [kind |-> "appendPrependArray", source |-> array, item |-> item,
     append |-> append, hasItem |-> TRUE, index |-> 0]

\* new IterableGenerator(length, generator, seed)
GeneratorNew(length, generator, seed) ==
    IF length < 0 THEN Thrown
    ELSE [kind |-> "generator", generator |-> generator, seed |-> seed,
          length |-> length, index |-> 0, prev |-> seed]

\* array[Symbol.iterator](), and the array-backed handle's, which iterates its array
ArrayIterator(s) == [kind |-> "arrayIter", items |-> s.items, index |-> 0]

\* IterableQuery[Symbol.iterator]: the wrapped iterable's own cursor
IterableQueryIterator(s) == GetIterator(s.iterable)

\* iterable[Symbol.iterator](): a fresh cursor over the iterable, as a value;
\* a one-shot host iterator returns itself
GetIterator(s) ==
    CASE s.kind \in {"array", "arrayQuery"} -> ArrayIterator(s)
      [] s.kind = "oneshot" -> [kind |-> "oneshotIter", items |-> s.items]
      [] s.kind = "query" -> IterableQueryIterator(s)
      [] s.kind = "take" -> TakeNew(s.source, s.count)
      [] s.kind = "takeArray" -> TakeArrayNew(s.source, s.count)
      [] s.kind = "appendPrepend" -> AppendPrependNew(s.source, s.item, s.append)
      [] s.kind = "appendPrependArray" ->
            AppendPrependArrayNew(s.source, s.item, s.append)
      [] s.kind = "generator" -> GeneratorNew(s.length, s.generator, s.seed)

Step(c, h, res) == [c |-> c, h |-> h, res |-> res]

\* next() of the host's array iterator
ArrayIterNext(c, h) ==
    IF c.index < Len(c.items)
    THEN Step([c EXCEPT !.index = @ + 1], [h EXCEPT !.pulls = @ + 1],
              iteratorResult(Val(c.items[c.index + 1])))
    ELSE Step(c, h, iteratorDone)

\* next() of a one-shot host iterator: the position lives in the object itself
OneShotNext(c, h) ==
    IF h.pos < Len(c.items)
    THEN Step(c, [h EXCEPT !.pos = @ + 1, !.pulls = @ + 1],
              iteratorResult(Val(c.items[h.pos + 1])))
    ELSE Step(c, h, iteratorDone)

TakeGetNextOffByOne(c, h) ==
    IF c.index > c.count THEN Step(c, h, iteratorDone)
    ELSE LET n == CursorNext(c.iterator, h)
         IN  Step([c EXCEPT !.index = @ + 1, !.iterator = n.c], n.h, n.res)

\* TakeIterable.getNext
TakeGetNext(c, h) ==
    IF c.index = c.count THEN Step(c, h, iteratorDone)
    ELSE LET n == CursorNext(c.iterator, h)
         IN  Step([c EXCEPT !.index = @ + 1, !.iterator = n.c], n.h, n.res)

TakeArrayGetNextOffByOne(c, h) ==
    IF c.index <= c.count /\ c.index < Len(c.source)
    THEN Step([c EXCEPT !.index = @ + 1], [h EXCEPT !.pulls = @ + 1],
              iteratorResult(Val(c.source[c.index + 1])))
    ELSE Step(c, h, iteratorDone)

\* TakeArrayIterable.getNext
TakeArrayGetNext(c, h) ==
    IF c.index < c.count /\ c.index < Len(c.source)
    THEN Step([c EXCEPT !.index = @ + 1], [h EXCEPT !.pulls = @ + 1],
              iteratorResult(Val(c.source[c.index + 1])))
    ELSE Step(c, h, iteratorDone)

\* an appending cursor that forgets to clear hasItem
AppendPrependGetNextKeepsItem(c, h) ==
    IF c.append
    THEN LET n == CursorNext(c.iterator, h)
         IN  IF n.res.done /\ c.hasItem
             THEN Step([c EXCEPT !.iterator = n.c], n.h, iteratorResult(Val(c.item)))
             ELSE Step([c EXCEPT !.iterator = n.c], n.h, n.res)
    ELSE IF c.hasItem
         THEN Step([c EXCEPT !.hasItem = FALSE], h, iteratorResult(Val(c.item)))
         ELSE LET n == CursorNext(c.iterator, h)
              IN  Step([c EXCEPT !.iterator = n.c], n.h, n.res)

\* AppendPrependIterable.getNext
AppendPrependGetNext(c, h) ==
    IF c.append
    THEN LET n == CursorNext(c.iterator, h)
         IN  IF n.res.done /\ c.hasItem
             THEN Step([c EXCEPT !.hasItem = FALSE, !.iterator = n.c], n.h,
                       iteratorResult(Val(c.item)))
             ELSE Step([c EXCEPT !.iterator = n.c], n.h, n.res)
    ELSE IF c.hasItem
         THEN Step([c EXCEPT !.hasItem = FALSE], h, iteratorResult(Val(c.item)))
         ELSE LET n == CursorNext(c.iterator, h)
              IN  Step([c EXCEPT !.iterator = n.c], n.h, n.res)

\* AppendPrependArrayIterable.getNext
AppendPrependArrayGetNext(c, h) ==
    IF ~c.hasItem /\ c.index = Len(c.source) THEN Step(c, h, iteratorDone)
    ELSE IF c.append
    THEN IF c.hasItem /\ c.index = Len(c.source)
         THEN Step([c EXCEPT !.hasItem = FALSE], h, iteratorResult(Val(c.item)))
         ELSE Step([c EXCEPT !.index = @ + 1], [h EXCEPT !.pulls = @ + 1],
                   iteratorResult(Val(c.source[c.index + 1])))
    ELSE IF c.hasItem
         THEN Step([c EXCEPT !.hasItem = FALSE], h, iteratorResult(Val(c.item)))
         ELSE Step([c EXCEPT !.index = @ + 1], [h EXCEPT !.pulls = @ + 1],
                   iteratorResult(Val(c.source[c.index + 1])))

\* IterableGenerator.next
GeneratorNext(c, h) ==
    IF c.index < c.length
    THEN LET next == GenApply(c.generator, c.index, c.prev)
         IN  Step([c EXCEPT !.prev = next, !.index = @ + 1],
                  [h EXCEPT !.calls = @ + 1], iteratorResult(next))
    ELSE Step(c, h, iteratorDone)

\* cursor.next(), by the class of the cursor
CursorNext(c, h) ==
    CASE c.kind = "arrayIter" -> ArrayIterNext(c, h)
      [] c.kind = "oneshotIter" -> OneShotNext(c, h)
      [] c.kind = "take" -> TakeGetNext(c, h)
      [] c.kind = "takeArray" -> TakeArrayGetNext(c, h)
      [] c.kind = "appendPrepend" -> AppendPrependGetNext(c, h)
      [] c.kind = "appendPrependArray" -> AppendPrependArrayGetNext(c, h)
      [] c.kind = "generator" -> GeneratorNext(c, h)

----------------------------------------------------------------------------
(* Objects by reference: the stage a chain call built, its array twin, and *)
(* the cursor objects the two cursor slots hold                            *)

Slots == {"a", "b"}

Other(slot) == IF slot = "a" THEN "b" ELSE "a"

NoRef == [of |-> "none", at |-> "none", after |-> 0]

\* a newly constructed object is a new reference, held by the slot
Alloc(os, slot, o) == [objs |-> [os EXCEPT ![slot] = o], at |-> slot]

\* a method that returns `this` hands out the object it was called on
ReturnThis(os, from, slot) == [objs |-> os, at |-> from]

\* TakeIterable.clone
TakeClone(os, from, slot) ==
    Alloc(os, slot, TakeNew(os[from].source, os[from].count))

\* TakeArrayIterable.clone
TakeArrayClone(os, from, slot) ==
    Alloc(os, slot, TakeArrayNew(os[from].source, os[from].count))

\* AppendPrependIterable.clone
AppendPrependClone(os, from, slot) ==
    Alloc(os, slot, AppendPrependNew(os[from].source, os[from].item, os[from].append))

\* AppendPrependArrayIterable.clone
AppendPrependArrayClone(os, from, slot) ==
    Alloc(os, slot,
          AppendPrependArrayNew(os[from].source, os[from].item, os[from].append))

\* IterableGenerator[Symbol.iterator]
GeneratorSymbolIterator(os, from, slot) ==
    Alloc(os, slot, GeneratorNew(os[from].length, os[from].generator, os[from].seed))

\* handle[Symbol.iterator]() on the handle wrapping the object at `from`:
\* IterableIterator[Symbol.iterator] is clone(); an array gives a new array iterator
SymbolIterator(os, from, slot) ==
    CASE os[from].kind = "take" -> TakeClone(os, from, slot)
      [] os[from].kind = "takeArray" -> TakeArrayClone(os, from, slot)
      [] os[from].kind = "appendPrepend" -> AppendPrependClone(os, from, slot)
      [] os[from].kind = "appendPrependArray" -> AppendPrependArrayClone(os, from, slot)
      [] os[from].kind = "generator" -> GeneratorSymbolIterator(os, from, slot)
      [] os[from].kind = "array" -> Alloc(os, slot, GetIterator(os[from]))

----------------------------------------------------------------------------
(* Chain calls of the facade (IterableQueryBase) and Query.generate *)

NoOp ==
    [name |-> "none", n |-> 0, item |-> 0, generator |-> "none", seed |-> Undef,
     fn |-> "none", other |-> NoObj]

Seeds == {Undef, Val(1)}

RECURSIVE TakeLastLoop(_, _, _, _)
\* the for..of loop of takeLast: keeps the last `count` elements
TakeLastLoop(c, h, array, count) ==
    LET n == CursorNext(c, h)
    IN  IF n.res.done THEN [array |-> array, h |-> n.h]
        ELSE TakeLastLoop(n.c, n.h,
                          IF Len(array) < count
                          THEN Append(array, n.res.value.val)
                          ELSE Append(Tail(array), n.res.value.val),
                          count)

\* IterableQueryBase.takeLast
TakeLast(this, h, count) ==
    IF count < 0 THEN [obj |-> Thrown, h |-> h]
    ELSE IF count = 0 THEN [obj |-> ArrayOf(<<>>), h |-> h]
    ELSE LET r == TakeLastLoop(GetIterator(this), Requested(h), <<>>, count)
         IN  [obj |-> ArrayOf(r.array), h |-> r.h]

Built(stage, twin) ==
    /\ thrown' = (stage.kind = "throw")
    /\ objs' = IF stage.kind = "throw" THEN objs
               ELSE [objs EXCEPT !.stage = stage, !.twin = twin]

\* this.take(n)
CallTake ==
    \E n \in Counts :
        /\ op.name = "none"
        /\ op' = [NoOp EXCEPT !.name = "take", !.n = n]
        /\ Built(TakeNew(source, n), TakeArrayNew(source.items, n))
        /\ UNCHANGED <<source, ref, hist, heap, result>>

\* this.append(value), this.prepend(value)
CallAppendPrepend ==
    \E item \in Items, append \in BOOLEAN :
        /\ op.name = "none"
        /\ op' = [NoOp EXCEPT !.name = IF append THEN "append" ELSE "prepend",
                              !.item = item]
        /\ Built(AppendPrependNew(source, item, append),
                 AppendPrependArrayNew(source.items, item, append))
        /\ UNCHANGED <<source, ref, hist, heap, result>>

\* Query.generate(length, generator, seed)
CallGenerate ==
    \E length \in Counts, g \in Generators, seed \in Seeds :
        /\ op.name = "none"
        /\ length <= MaxLen
        /\ op' = [NoOp EXCEPT !.name = "generate", !.n = length, !.generator = g,
                              !.seed = seed]
        /\ Built(GeneratorNew(length, g, seed), NoObj)
        /\ UNCHANGED <<source, ref, hist, heap, result>>

\* this.takeLast(count)
CallTakeLast ==
    \E count \in Counts :
        /\ op.name = "none"
        /\ op' = [NoOp EXCEPT !.name = "takeLast", !.n = count]
        /\ LET r == TakeLast(source, heap, count)
           IN  /\ Built(r.obj, NoObj)
               /\ heap' = r.h
        /\ UNCHANGED <<source, ref, hist, result>>

\* a consumer obtains a cursor from the handle over the stage (or over its twin)
NewCursor ==
    \E slot \in Slots, from \in {"stage", "twin"} :
        /\ op.name # "none"
        /\ ~thrown
        /\ ref[slot].of = "none"
        /\ objs[from].kind # "none"
        /\ LET r == SymbolIterator(objs, from, slot)
           IN  /\ objs' = r.objs
               /\ ref' = [ref EXCEPT ![slot] =
                            [of |-> from, at |-> r.at, after |-> Len(hist[Other(slot)])]]
               /\ thrown' = (r.objs[r.at].kind = "throw")
        /\ UNCHANGED <<source, op, hist, heap, result>>

\* a consumer calls next() on the cursor it holds
Advance ==
    \E slot \in Slots :
        /\ ref[slot].of # "none"
        /\ ~thrown
        /\ Len(hist[slot]) < MaxCalls
        /\ LET n == CursorNext(objs[ref[slot].at], heap)
           IN  /\ objs' = [objs EXCEPT ![ref[slot].at] = n.c]
               /\ heap' = n.h
               /\ hist' = [hist EXCEPT ![slot] = Append(@, n.res)]
        /\ UNCHANGED <<source, op, thrown, ref, result>>

NoResult == [name |-> "none"]

Init ==
    /\ source \in {ArrayOf(A) : A \in SeqsUpTo(SmallElems, MaxLen)}
    /\ op = NoOp
    /\ thrown = FALSE
    /\ objs = [stage |-> NoObj, twin |-> NoObj, a |-> NoObj, b |-> NoObj]
    /\ ref = [s \in Slots |-> NoRef]
    /\ hist = [s \in Slots |-> <<>>]
    /\ heap = FreshHeap
    /\ result = NoResult

Next ==
    \/ CallTake
    \/ CallAppendPrepend
    \/ CallGenerate
    \/ CallTakeLast
    \/ NewCursor
    \/ Advance

Spec == Init /\ [][Next]_vars

----------------------------------------------------------------------------
(* Properties of the cursor-level specification *)

\* two result histories agree wherever both have an entry
Agree(h1, h2) == \A i \in 1 .. Min2(Len(h1), Len(h2)) : h1[i] = h2[i]

Drained(h) == Len(h) > 0 /\ h[Len(h)].done

ValuesOf(h) == Len(SelectSeq(h, LAMBDA r : ~r.done))

\* C1: two cursors obtained from the same take / append / prepend / generate
\* sequence over an array yield the same results call for call (the same
\* elements, then done), however far the first had been advanced when the
\* second was obtained.
C1_RestartIdentical ==
    (/\ op.name \in {"take", "append", "prepend", "generate"}
     /\ ref["a"].of = "stage"
     /\ ref["b"].of = "stage")
    => Agree(hist["a"], hist["b"])

\* both cursors drained, at least two elements each, and the second cursor
\* obtained after the first had already yielded an element
C1_Witness ==
    /\ op.name \in {"take", "append", "prepend", "generate"}
    /\ ref["a"].of = "stage" /\ ref["b"].of = "stage"
    /\ ref["b"].after >= 1
    /\ Drained(hist["a"]) /\ Drained(hist["b"])
    /\ ValuesOf(hist["a"]) >= 2
    /\ hist["a"][1] # hist["a"][2]

\* C2: over an array, a cursor of the array-specialised stage returns the
\* same results call for call (the same elements, then done) as a cursor of
\* the generic stage built with the same arguments.
C2_TwinEquivalent ==
    \A s \in Slots :
        (/\ op.name \in {"take", "append", "prepend"}
         /\ ref[s].of = "stage"
         /\ ref[Other(s)].of = "twin")
        => Agree(hist[s], hist[Other(s)])

\* a generic and a twin cursor, both drained after yielding elements
C2_Witness ==
    /\ op.name \in {"append", "prepend"}
    /\ ref["a"].of = "stage" /\ ref["b"].of = "twin"
    /\ Drained(hist["a"]) /\ Drained(hist["b"])
    /\ ValuesOf(hist["b"]) >= 3

\* C4: take / generate / takeLast with a negative size raise at the call,
\* before any element is pulled or any generator function is invoked, and no
\* cursor is ever handed out; with a size of 0 or more nothing is raised, at
\* the call or later.
C4_InvalidSizeFailsAtConstruction ==
    op.name \in {"take", "generate", "takeLast"}
    => IF op.n < 0
       THEN /\ thrown
            /\ heap.pulls = 0 /\ heap.calls = 0
            /\ objs.stage = NoObj
            /\ \A s \in Slots : ref[s] = NoRef /\ hist[s] = <<>>
       ELSE ~thrown

\* take with a negative count over a non-empty array has raised
C4_Witness == op.name = "take" /\ op.n < 0 /\ thrown /\ Len(source.items) > 0

RECURSIVE AloneRun(_, _)
\* the cursor c after k calls of next() with nothing else running, and the
\* results of those calls
AloneRun(c, k) ==
    IF k = 0 THEN [c |-> c, hist |-> <<>>]
    ELSE LET before == AloneRun(c, k - 1)
             n == CursorNext(before.c, FreshHeap)
         IN  [c |-> n.c, hist |-> Append(before.hist, n.res)]

StageOps == {"take", "append", "prepend", "generate"}

\* C13: over an array, every cursor obtained from a take / append / prepend /
\* generate sequence or from its array twin has, in any interleaving of next()
\* calls with the other cursor, returned exactly the results that a cursor of
\* its sequence returns when advanced alone, and is in the state (position,
\* pending item) that such a cursor is in after as many calls.
C13_CursorsIndependent ==
    \A s \in Slots :
        (op.name \in StageOps /\ ref[s].of # "none")
        => LET alone == AloneRun(GetIterator(objs[ref[s].of]), Len(hist[s]))
           IN  /\ hist[s] = alone.hist
               /\ objs[ref[s].at] = alone.c

\* two cursors of one appending sequence: the second obtained after the first
\* had yielded, the first advanced again afterwards until it gave out its item,
\* the second advanced too and still holding its own item
C13_Witness ==
    /\ op.name = "append"
    /\ ref["a"].of = "stage" /\ ref["b"].of = "stage"
    /\ ref["b"].after >= 1
    /\ Len(hist["a"]) > ref["b"].after
    /\ ValuesOf(hist["b"]) >= 1
    /\ ~objs[ref["a"].at].hasItem
    /\ objs[ref["b"].at].hasItem

\* the number of results of h that carry the value v
Yielded(h, v) == Len(SelectSeq(h, LAMBDA r : r = iteratorResult(Val(v))))

\* C14: after a cursor of a take / append / prepend / generate sequence over an
\* array has returned done, all its later results are done; take(n) and
\* generate(n) yield at most n values however often next() is called; a cursor
\* of append / prepend yields at most one value more than the array has, exactly
\* that many once it is done, and an item that is not in the array exactly once.
C14_DoneIsPermanent ==
    \A s \in Slots :
        (op.name \in StageOps /\ ref[s].of # "none")
        => /\ \A i \in 1 .. Len(hist[s]) : \A j \in i .. Len(hist[s]) :
                 hist[s][i].done => hist[s][j] = iteratorDone
           /\ op.name \in {"take", "generate"} => ValuesOf(hist[s]) <= op.n
           /\ op.name \in {"append", "prepend"}
              => /\ ValuesOf(hist[s]) <= Len(source.items) + 1
                 /\ Drained(hist[s]) => ValuesOf(hist[s]) = Len(source.items) + 1
                 /\ (\A i \in 1 .. Len(source.items) : source.items[i] # op.item)
                    => /\ Yielded(hist[s], op.item) <= 1
                       /\ Drained(hist[s]) => Yielded(hist[s], op.item) = 1

\* a cursor of an appending sequence that yielded an element and the item, not
\* an element of the array, and was then called twice more
C14_Witness ==
    \E s \in Slots :
        /\ op.name = "append"
        /\ ref[s].of = "stage"
        /\ Len(hist[s]) >= 4
        /\ hist[s][Len(hist[s])].done /\ hist[s][Len(hist[s]) - 1].done
        /\ ValuesOf(hist[s]) >= 2
        /\ Yielded(hist[s], op.item) = 1
        /\ \A i \in 1 .. Len(source.items) : source.items[i] # op.item

----------------------------------------------------------------------------
(* Terminal operations of IterableQueryBase.  Each takes the handle `this` *)
(* and the heap, and returns [value, h].                                   *)

Ret(value, h) == [value |-> value, h |-> h]

\* the functions handed to the terminal operations
Reducers == {"add", "sub"}

Reducer(r, prev, current) == IF r = "add" THEN prev + current ELSE prev - current

Abs(x) == IF x < 0 THEN -x ELSE x

\* Compare<T>: a comparator returns an Ordering; "natural" is compare() of Compare.ts
Comparators == {"natural", "reverse", "abs"}

Ordering(x, y) == IF x < y THEN "Less" ELSE IF x > y THEN "Greater" ELSE "Equal"

Compare(cmp, x, y) ==
    CASE cmp = "natural" -> Ordering(x, y)
      [] cmp = "reverse" -> Ordering(y, x)
      [] cmp = "abs" -> Ordering(Abs(x), Abs(y))

\* predicates: "none" stands for the call without a predicate
Predicates == {"isZero", "positive", "nonNegative"}

Predicate(p, x) ==
    CASE p = "isZero" -> x = 0
      [] p = "positive" -> x > 0
      [] p = "nonNegative" -> x >= 0
      [] p = "none" -> TRUE

\* key selectors
KeySelectors == {"identity", "negate", "abs"}

KeySelector(k, x) ==
    CASE k = "identity" -> x
      [] k = "negate" -> -x
      [] k = "abs" -> Abs(x)

RECURSIVE ToArrayLoop(_, _, _)
ToArrayLoop(c, h, array) ==
    LET n == CursorNext(c, h)
    IN  IF n.res.done THEN Ret(array, n.h)
        ELSE ToArrayLoop(n.c, n.h, Append(array, n.res.value.val))

\* IterableQueryBase.toArray: Array.from(this)
ToArray(this, h) == ToArrayLoop(GetIterator(this), Requested(h), <<>>)

RECURSIVE ReduceLoop(_, _, _, _)
ReduceLoop(c, h, acc, reducer) ==
    LET n == CursorNext(c, h)
    IN  IF ~n.res.done
        THEN ReduceLoop(n.c, n.h, Val(Reducer(reducer, acc.val, n.res.value.val)), reducer)
        ELSE Ret(acc, n.h)

\* IterableQueryBase.reduce
Reduce(this, h, reducer) ==
    LET first == CursorNext(GetIterator(this), Requested(h))
    IN  IF Truthy(first.res.value)
        THEN ReduceLoop(first.c, first.h, first.res.value, reducer)
        ELSE Ret(first.res.value, first.h)

RECURSIVE MinLoop(_, _, _, _)
MinLoop(c, h, value, cmp) ==
    LET n == CursorNext(c, h)
    IN  IF n.res.done THEN Ret(value, n.h)
        ELSE IF Truthy(value)
        THEN MinLoop(n.c, n.h,
                     IF Compare(cmp, n.res.value.val, value.val) = "Less"
                     THEN n.res.value ELSE value,
                     cmp)
        ELSE MinLoop(n.c, n.h, n.res.value, cmp)

\* IterableQueryBase.min
Min(this, h, cmp) == MinLoop(GetIterator(this), Requested(h), Undef, cmp)

RECURSIVE MaxLoop(_, _, _, _)
MaxLoop(c, h, value, cmp) ==
    LET n == CursorNext(c, h)
    IN  IF n.res.done THEN Ret(value, n.h)
        ELSE IF Truthy(value)
        THEN MaxLoop(n.c, n.h,
                     IF Compare(cmp, n.res.value.val, value.val) = "Greater"
                     THEN n.res.value ELSE value,
                     cmp)
        ELSE MaxLoop(n.c, n.h, n.res.value, cmp)

\* IterableQueryBase.max
Max(this, h, cmp) == MaxLoop(GetIterator(this), Requested(h), Undef, cmp)

RECURSIVE SingleLoop(_, _, _, _)
\* both branches of single: without a predicate every element matches
SingleLoop(c, h, res, predicate) ==
    LET n == CursorNext(c, h)
    IN  IF n.res.done THEN Ret(res, n.h)
        ELSE IF Predicate(predicate, n.res.value.val)
        THEN IF ~Truthy(res)
             THEN SingleLoop(n.c, n.h, n.res.value, predicate)
             ELSE Ret(Undef, n.h)
        ELSE SingleLoop(n.c, n.h, res, predicate)

\* IterableQueryBase.single
Single(this, h, predicate) == SingleLoop(GetIterator(this), Requested(h), Undef, predicate)

RECURSIVE IsSortedByLoop(_, _, _, _, _)
\* the loop of isSorted / isSortedDecending / isSortedBy / isSortedByDecending:
\* `descending` picks prev < current over prev > current
IsSortedByLoop(c, h, prev, keySelector, descending) ==
    LET n == CursorNext(c, h)
    IN  IF n.res.done THEN Ret(TRUE, n.h)
        ELSE LET current == KeySelector(keySelector, n.res.value.val)
             IN  IF /\ Truthy(prev)
                    /\ IF descending THEN prev.val < current ELSE prev.val > current
                 THEN Ret(FALSE, n.h)
                 ELSE IsSortedByLoop(n.c, n.h, Val(current), keySelector, descending)

\* IterableQueryBase.isSorted
IsSorted(this, h) == IsSortedByLoop(GetIterator(this), Requested(h), Undef, "identity", FALSE)

\* IterableQueryBase.isSortedDecending
IsSortedDecending(this, h) ==
    IsSortedByLoop(GetIterator(this), Requested(h), Undef, "identity", TRUE)

\* IterableQueryBase.isSortedBy
IsSortedBy(this, h, keySelector) ==
    IsSortedByLoop(GetIterator(this), Requested(h), Undef, keySelector, FALSE)

\* IterableQueryBase.isSortedByDecending
IsSortedByDecending(this, h, keySelector) ==
    IsSortedByLoop(GetIterator(this), Requested(h), Undef, keySelector, TRUE)

RECURSIVE SequenceEqualsLoopNoLength(_, _, _)
SequenceEqualsLoopNoLength(x, y, h) ==
    LET left == CursorNext(x, h)
        right == CursorNext(y, left.h)
    IN  IF left.res.done \/ right.res.done THEN Ret(TRUE, right.h)
        ELSE IF ~StrictEq(left.res.value, right.res.value) THEN Ret(FALSE, right.h)
        ELSE SequenceEqualsLoopNoLength(left.c, right.c, right.h)

RECURSIVE SequenceEqualsLoop(_, _, _)
SequenceEqualsLoop(x, y, h) ==
    LET left == CursorNext(x, h)
        right == CursorNext(y, left.h)
    IN  IF left.res.done /\ right.res.done THEN Ret(TRUE, right.h)
        ELSE IF left.res.done \/ right.res.done THEN Ret(FALSE, right.h)
        ELSE IF ~StrictEq(left.res.value, right.res.value) THEN Ret(FALSE, right.h)
        ELSE SequenceEqualsLoop(left.c, right.c, right.h)

\* IterableQueryBase.sequenceEquals
SequenceEquals(this, h, values) ==
    SequenceEqualsLoop(GetIterator(values), GetIterator(this), Requested(Requested(h)))

RECURSIVE CountLoop(_, _, _)
\* the counting loop of count().  Its overflow check, count >
\* Number.MAX_SAFE_INTEGER (2^53 - 1), needs more than 2^53 elements to fire:
\* no sequence of at most MaxLen + 1 elements reaches it.
CountLoop(c, h, count) ==
    LET n == CursorNext(c, h)
    IN  IF n.res.done THEN Ret(Val(count), n.h)
        ELSE CountLoop(n.c, n.h, count + 1)

\* what obj.count is: TakeIterable and TakeArrayIterable hold their count in a
\* field of that name, a handle has the method count()
CountMember(obj) ==
    CASE obj.kind \in {"take", "takeArray"} -> "number"
      [] obj.kind \in {"query", "arrayQuery"} -> "function"
      [] OTHER -> "undefined"

\* isSizedIterable of getSizedIterableCount
IsSizedIterable(obj) == CountMember(obj) # "undefined" /\ CountMember(obj) = "function"

RECURSIVE Count(_, _)
RECURSIVE GetSizedIterableCount(_, _)

\* getSizedIterableCount
GetSizedIterableCount(iter, h) ==
    IF iter.kind = "query" THEN GetSizedIterableCount(iter.iterable, h)
    ELSE IF IsSizedIterable(iter) THEN Count(iter, h)
    ELSE Ret(Undef, h)

\* IterableQueryBase.count, called without a predicate
Count(this, h) ==
    IF this.kind = "query"
    THEN LET thisCount == GetSizedIterableCount(this, h)
         IN  IF Truthy(thisCount.value) THEN thisCount
             ELSE CountLoop(GetIterator(this), Requested(thisCount.h), 0)
    ELSE CountLoop(GetIterator(this), Requested(h), 0)

\* IterableQueryBase.take
Take(this, n) ==
    LET iterable == TakeNew(this, n)
    IN  IF iterable.kind = "throw" THEN Thrown ELSE Query(iterable)

RECURSIVE Digits(_)
\* the decimal digits of n >= 0, as UTF-16 code units
Digits(n) == IF n < 10 THEN <<48 + n>> ELSE Append(Digits(n \div 10), 48 + (n % 10))

\* ToString(number), as UTF-16 code units
NumberToString(n) == IF n < 0 THEN <<45>> \o Digits(-n) ELSE Digits(n)

RECURSIVE StringLess(_, _)
\* x < y on strings: by code unit, a proper prefix first
StringLess(x, y) ==
    IF Len(y) = 0 THEN FALSE
    ELSE IF Len(x) = 0 THEN TRUE
    ELSE IF Head(x) # Head(y) THEN Head(x) < Head(y)
    ELSE StringLess(Tail(x), Tail(y))

\* the order array.sort uses: compare(x, y).value of the comparator when one
\* is given, else the order of the elements' strings; TRUE when y sorts before x
SortsBefore(cmp, y, x) ==
    IF cmp = "none" THEN StringLess(NumberToString(y), NumberToString(x))
    ELSE Compare(cmp, y, x) = "Less"

RECURSIVE SortInsert(_, _, _)
\* e goes after every element that does not sort after it (a stable sort)
SortInsert(cmp, sorted, e) ==
    IF Len(sorted) = 0 THEN <<e>>
    ELSE IF SortsBefore(cmp, e, sorted[Len(sorted)])
    THEN Append(SortInsert(cmp, SubSeq(sorted, 1, Len(sorted) - 1), e),
                sorted[Len(sorted)])
    ELSE Append(sorted, e)

RECURSIVE ArraySort(_, _)
\* Array.prototype.sort
ArraySort(cmp, array) ==
    IF Len(array) = 0 THEN <<>>
    ELSE SortInsert(cmp, ArraySort(cmp, SubSeq(array, 1, Len(array) - 1)),
                    array[Len(array)])

\* IterableQueryBase.sort
Sort(this, h, cmp) ==
    LET array == ToArray(this, h)
    IN  Ret(ArrayQuery(ArraySort(cmp, array.value)), array.h)

\* a piece of the rendered string: what it is and its UTF-16 code units
Token(t, str) == [t |-> t, s |-> str]

\* the defaults of ToStringOptions: ", ", "[", "]" and "..."
SeparatorToken == Token("separator", <<44, 32>>)

PrefixToken == Token("prefix", <<91>>)

PostfixToken == Token("postfix", <<93>>)

TruncateToken == Token("truncate", <<46, 46, 46>>)

\* JSON.stringify(value, undefined, 2) of a number
JsonStringify(v) == Token("element", NumberToString(v))

RECURSIVE ToStringLoop(_, _, _, _, _, _)
\* the while (true) loop of iterableToString; limit is undefined for
\* options.limit ?? Number.MAX_VALUE, which no count reaches.  The elements
\* are numbers, so isIterable(current.value) is false.
ToStringLoop(iterator, h, current, count, res, limit) ==
    IF current.done THEN Ret(res, h)
    ELSE LET next == CursorNext(iterator, h)
             rendered == Append(res, JsonStringify(current.value.val))
         IN  IF next.res.done THEN Ret(rendered, next.h)
             ELSE IF limit.def /\ count + 1 >= limit.val
             THEN Ret(rendered \o <<SeparatorToken, TruncateToken>>, next.h)
             ELSE ToStringLoop(next.c, next.h, next.res, count + 1,
                               Append(rendered, SeparatorToken), limit)

\* iterableToString
IterableToString(iterable, h, limit) ==
    LET current == CursorNext(GetIterator(iterable), Requested(h))
        r == ToStringLoop(current.c, current.h, current.res, 0, <<PrefixToken>>, limit)
    IN  Ret(Append(r.value, PostfixToken), r.h)

\* IterableQueryBase.isEmpty: for (const _ of this) return false
IsEmpty(this, h) ==
    LET first == CursorNext(GetIterator(this), Requested(h))
    IN  Ret(first.res.done, first.h)

RECURSIVE FoldLoop(_, _, _, _)
FoldLoop(c, h, acc, combine) ==
    LET n == CursorNext(c, h)
    IN  IF n.res.done THEN Ret(acc, n.h)
        ELSE FoldLoop(n.c, n.h, Reducer(combine, acc, n.res.value.val), combine)

\* IterableQueryBase.fold
Fold(this, h, initialValue, combine) ==
    LET empty == IsEmpty(this, h)
    IN  IF empty.value THEN Ret(initialValue, empty.h)
        ELSE FoldLoop(GetIterator(this), Requested(empty.h), initialValue, combine)

\* IterableQueryBase.minmax: min && max ? [min, max] : undefined
Minmax(this, h, cmp) ==
    LET min == Min(this, h, cmp)
        max == Max(this, min.h, cmp)
    IN  IF Truthy(min.value) /\ Truthy(max.value)
        THEN Ret([def |-> TRUE, val |-> <<min.value.val, max.value.val>>], max.h)
        ELSE Ret(Undef, max.h)

RECURSIVE IndexLoop(_, _, _, _, _)
\* the loop of indexOf (value given, predicate "none") and of findIndex
IndexLoop(c, h, index, value, predicate) ==
    LET n == CursorNext(c, h)
    IN  IF n.res.done THEN Ret(Val(index), n.h)
        ELSE IF (IF predicate = "none" THEN StrictEq(n.res.value, value)
                 ELSE Predicate(predicate, n.res.value.val))
        THEN Ret(Val(index), n.h)
        ELSE IndexLoop(n.c, n.h, index + 1, value, predicate)

\* IterableQueryBase.indexOf
IndexOf(this, h, value) ==
    LET empty == IsEmpty(this, h)
    IN  IF empty.value THEN Ret(Undef, empty.h)
        ELSE IndexLoop(GetIterator(this), Requested(empty.h), 0, Val(value), "none")

\* IterableQueryBase.findIndex
FindIndex(this, h, predicate) ==
    LET empty == IsEmpty(this, h)
    IN  IF empty.value THEN Ret(Undef, empty.h)
        ELSE IndexLoop(GetIterator(this), Requested(empty.h), 0, Undef, predicate)

RECURSIVE LastIndexOfLoop(_, _, _, _, _)
\* the loop of lastIndexOf: index is advanced only past an element that differs
LastIndexOfLoop(c, h, lastIndex, index, value) ==
    LET n == CursorNext(c, h)
    IN  IF n.res.done THEN Ret(lastIndex, n.h)
        ELSE IF StrictEq(n.res.value, value)
        THEN LastIndexOfLoop(n.c, n.h, Val(index), index, value)
        ELSE LastIndexOfLoop(n.c, n.h, lastIndex, index + 1, value)

\* IterableQueryBase.lastIndexOf
LastIndexOf(this, h, value) ==
    LET empty == IsEmpty(this, h)
    IN  IF empty.value THEN Ret(Undef, empty.h)
        ELSE LastIndexOfLoop(GetIterator(this), Requested(empty.h), Undef, 0, Val(value))

RECURSIVE FindLastIndexLoop(_, _, _, _, _)
FindLastIndexLoop(c, h, lastIndex, index, predicate) ==
    LET n == CursorNext(c, h)
    IN  IF n.res.done THEN Ret(lastIndex, n.h)
        ELSE FindLastIndexLoop(n.c, n.h,
                               IF Predicate(predicate, n.res.value.val)
                               THEN Val(index) ELSE lastIndex,
                               index + 1, predicate)

\* IterableQueryBase.findLastIndex
FindLastIndex(this, h, predicate) ==
    LET empty == IsEmpty(this, h)
    IN  IF empty.value THEN Ret(Undef, empty.h)
        ELSE FindLastIndexLoop(GetIterator(this), Requested(empty.h), Undef, 0, predicate)

----------------------------------------------------------------------------
(* The specification of the terminal operations: one call on a handle *)

\* elements of the handles the terminal operations are run over
Elems == {-1, 0, 1, 2, 10}

\* the elements a traversal of the handle yields, from a fresh state
Contents(s) == ToArray(s, FreshHeap).value

Restartable(s) == s.kind = "arrayQuery" \/ (s.kind = "query" /\ s.iterable.kind # "oneshot")

\* arrays near A: A itself, A cut or extended by one, A changed at one place
Variants(A) ==
    {A}
    \cup (IF Len(A) > 0 THEN {SubSeq(A, 1, Len(A) - 1)} ELSE {})
    \cup {Append(A, x) : x \in Elems}
    \cup {[A EXCEPT ![i] = x] : i \in 1 .. Len(A), x \in Elems}

Handles ==
    {ArrayQuery(A) : A \in SeqsUpTo(Elems, MaxLen)}
    \cup {Query(OneShot(A)) : A \in SeqsUpTo(Elems, MaxLen)}
    \cup {Query(GeneratorNew(length, g, seed)) :
            length \in 0 .. MaxLen, g \in Generators, seed \in Seeds}

Idle == op.name = "none"

TermReduce ==
    \E reducer \in Reducers :
        /\ Idle
        /\ op' = [NoOp EXCEPT !.name = "reduce", !.fn = reducer]
        /\ LET r == Reduce(source, heap, reducer)
           IN  result' = [value |-> r.value] /\ heap' = r.h
        /\ UNCHANGED <<source, thrown, objs, ref, hist>>

TermMin ==
    \E cmp \in Comparators :
        /\ Idle
        /\ op' = [NoOp EXCEPT !.name = "min", !.fn = cmp]
        /\ LET r == Min(source, heap, cmp)
           IN  result' = [value |-> r.value] /\ heap' = r.h
        /\ UNCHANGED <<source, thrown, objs, ref, hist>>

TermMax ==
    \E cmp \in Comparators :
        /\ Idle
        /\ op' = [NoOp EXCEPT !.name = "max", !.fn = cmp]
        /\ LET r == Max(source, heap, cmp)
           IN  result' = [value |-> r.value] /\ heap' = r.h
        /\ UNCHANGED <<source, thrown, objs, ref, hist>>

TermSingle ==
    \E predicate \in Predicates \cup {"none"} :
        /\ Idle
        /\ op' = [NoOp EXCEPT !.name = "single", !.fn = predicate]
        /\ LET r == Single(source, heap, predicate)
           IN  result' = [value |-> r.value] /\ heap' = r.h
        /\ UNCHANGED <<source, thrown, objs, ref, hist>>

TermIsSorted ==
    \E descending \in BOOLEAN :
        /\ Idle
        /\ op' = [NoOp EXCEPT !.name = IF descending THEN "isSortedDecending"
                                       ELSE "isSorted",
                              !.fn = "identity"]
        /\ LET r == IF descending THEN IsSortedDecending(source, heap)
                    ELSE IsSorted(source, heap)
           IN  result' = [value |-> r.value] /\ heap' = r.h
        /\ UNCHANGED <<source, thrown, objs, ref, hist>>

TermIsSortedBy ==
    \E descending \in BOOLEAN, keySelector \in KeySelectors :
        /\ Idle
        /\ op' = [NoOp EXCEPT !.name = IF descending THEN "isSortedByDecending"
                                       ELSE "isSortedBy",
                              !.fn = keySelector]
        /\ LET r == IF descending THEN IsSortedByDecending(source, heap, keySelector)
                    ELSE IsSortedBy(source, heap, keySelector)
           IN  result' = [value |-> r.value] /\ heap' = r.h
        /\ UNCHANGED <<source, thrown, objs, ref, hist>>

\* S.sequenceEquals(values): values is S itself or an array-backed handle
TermSequenceEquals ==
    \E values \in {source} \cup {ArrayQuery(T) : T \in Variants(Contents(source))} :
        /\ Idle
        /\ op' = [NoOp EXCEPT !.name = "sequenceEquals", !.other = values,
                              !.fn = IF values = source THEN "self" ELSE "other"]
        /\ LET r == SequenceEquals(source, heap, values)
           IN  result' = [value |-> r.value] /\ heap' = r.h
        /\ UNCHANGED <<source, thrown, objs, ref, hist>>

TermSort ==
    \E cmp \in Comparators \cup {"none"} :
        /\ Idle
        /\ op' = [NoOp EXCEPT !.name = "sort", !.fn = cmp]
        /\ LET r == Sort(source, heap, cmp)
           IN  result' = [value |-> r.value] /\ heap' = r.h
        /\ UNCHANGED <<source, thrown, objs, ref, hist>>

\* S.take(n).count()
TermTakeCount ==
    \E n \in 0 .. (MaxLen + 1) :
        /\ Idle
        /\ op' = [NoOp EXCEPT !.name = "takeCount", !.n = n]
        /\ LET r == Count(Take(source, n), heap)
           IN  result' = [value |-> r.value] /\ heap' = r.h
        /\ UNCHANGED <<source, thrown, objs, ref, hist>>

\* S.toString({limit}) and S.toString()
TermToString ==
    \E limit \in {Undef} \cup {Val(L) : L \in 0 .. (MaxLen + 1)} :
        /\ Idle
        /\ op' = [NoOp EXCEPT !.name = "toString", !.n = limit.val,
                              !.fn = IF limit.def THEN "limit" ELSE "noLimit"]
        /\ LET r == IterableToString(source, heap, limit)
           IN  result' = [value |-> r.value] /\ heap' = r.h
        /\ UNCHANGED <<source, thrown, objs, ref, hist>>

\* the seeds handed to fold
InitialValues == {0, 1}

TermFold ==
    \E initialValue \in InitialValues, combine \in Reducers :
        /\ Idle
        /\ op' = [NoOp EXCEPT !.name = "fold", !.n = initialValue, !.fn = combine]
        /\ LET r == Fold(source, heap, initialValue, combine)
           IN  result' = [value |-> r.value] /\ heap' = r.h
        /\ UNCHANGED <<source, thrown, objs, ref, hist>>

TermMinmax ==
    \E cmp \in Comparators :
        /\ Idle
        /\ op' = [NoOp EXCEPT !.name = "minmax", !.fn = cmp]
        /\ LET r == Minmax(source, heap, cmp)
           IN  result' = [value |-> r.value] /\ heap' = r.h
        /\ UNCHANGED <<source, thrown, objs, ref, hist>>

TermIndexOf ==
    \E value \in Elems, last \in BOOLEAN :
        /\ Idle
        /\ op' = [NoOp EXCEPT !.name = IF last THEN "lastIndexOf" ELSE "indexOf",
                              !.n = value]
        /\ LET r == IF last THEN LastIndexOf(source, heap, value)
                    ELSE IndexOf(source, heap, value)
           IN  result' = [value |-> r.value] /\ heap' = r.h
        /\ UNCHANGED <<source, thrown, objs, ref, hist>>

TermFindIndex ==
    \E predicate \in Predicates, last \in BOOLEAN :
        /\ Idle
        /\ op' = [NoOp EXCEPT !.name = IF last THEN "findLastIndex" ELSE "findIndex",
                              !.fn = predicate]
        /\ LET r == IF last THEN FindLastIndex(source, heap, predicate)
                    ELSE FindIndex(source, heap, predicate)
           IN  result' = [value |-> r.value] /\ heap' = r.h
        /\ UNCHANGED <<source, thrown, objs, ref, hist>>

InitTerm ==
    /\ source \in Handles
    /\ op = NoOp
    /\ thrown = FALSE
    /\ objs = [stage |-> NoObj, twin |-> NoObj, a |-> NoObj, b |-> NoObj]
    /\ ref = [s \in Slots |-> NoRef]
    /\ hist = [s \in Slots |-> <<>>]
    /\ heap = FreshHeap
    /\ result = NoResult

NextTerm ==
    \/ TermReduce
    \/ TermMin
    \/ TermMax
    \/ TermSingle
    \/ TermIsSorted
    \/ TermIsSortedBy
    \/ TermSequenceEquals
    \/ TermSort
    \/ TermTakeCount
    \/ TermToString
    \/ TermFold
    \/ TermMinmax
    \/ TermIndexOf
    \/ TermFindIndex

SpecTerm == InitTerm /\ [][NextTerm]_vars

----------------------------------------------------------------------------
(* Properties of the terminal operations *)

\* the elements of the handle the call was made on
Elements == Contents(source)

Front(e) == SubSeq(e, 1, Len(e) - 1)

RECURSIVE FoldLeft(_, _)
\* r(...r(r(e0, e1), e2)..., ek) of a non-empty sequence
FoldLeft(r, e) ==
    IF Len(e) = 1 THEN e[1] ELSE Reducer(r, FoldLeft(r, Front(e)), e[Len(e)])

Occurrences(e, x) == Cardinality({i \in 1 .. Len(e) : e[i] = x})

IsPermutation(e1, e2) ==
    /\ Len(e1) = Len(e2)
    /\ \A i \in 1 .. Len(e1) : Occurrences(e1, e1[i]) = Occurrences(e2, e1[i])

\* C3: over a finite restartable S and n >= 0, S.take(n).count() is
\* min(n, S.count()).
C3_TakeCountIsMin ==
    (op.name = "takeCount" /\ Restartable(source))
    => result.value = Val(Min2(op.n, Count(source, FreshHeap).value.val))

\* a take of more than the two or more elements the sequence has
C3_Witness ==
    /\ op.name = "takeCount" /\ Restartable(source)
    /\ Len(Elements) >= 2
    /\ op.n > Len(Elements)
    /\ result.value = Val(Len(Elements))

\* C5: reduce(r) returns undefined exactly on the empty sequence, and
\* otherwise r(...r(r(e0, e1), e2)..., ek).
C5_ReduceFoldsEveryElement ==
    op.name = "reduce"
    => result.value = IF Len(Elements) = 0 THEN Undef
                      ELSE Val(FoldLeft(op.fn, Elements))

\* C6: min (max) returns undefined exactly on the empty sequence, and
\* otherwise an element that no element compares Less (Greater) than.
C6_MinMaxAreExtremal ==
    op.name \in {"min", "max"}
    => /\ (result.value = Undef) <=> (Len(Elements) = 0)
       /\ Len(Elements) > 0
          => /\ \E i \in 1 .. Len(Elements) : result.value = Val(Elements[i])
             /\ \A i \in 1 .. Len(Elements) :
                   Compare(op.fn, Elements[i], result.value.val)
                      # (IF op.name = "min" THEN "Less" ELSE "Greater")

\* C7: single(predicate) returns the matching element when exactly one
\* element matches, and undefined when none or more than one match.
C7_SingleIsUniqueMatch ==
    op.name = "single"
    => LET matching == SelectSeq(Elements, LAMBDA x : Predicate(op.fn, x))
       IN  result.value = IF Len(matching) = 1 THEN Val(matching[1]) ELSE Undef

\* C8: isSorted / isSortedBy return true exactly when every adjacent pair of
\* (keys of) elements is in non-decreasing order, the Decending forms when
\* every adjacent pair is in non-increasing order.
C8_IsSortedIsPairwiseOrder ==
    op.name \in {"isSorted", "isSortedDecending", "isSortedBy", "isSortedByDecending"}
    => result.value =
         (\A i \in 1 .. Len(Elements) - 1 :
             LET x == KeySelector(op.fn, Elements[i])
                 y == KeySelector(op.fn, Elements[i + 1])
             IN  IF op.name \in {"isSorted", "isSortedBy"} THEN x <= y ELSE x >= y)

\* C9 as stated: S.sequenceEquals(S) is true for every handle, and
\* S.sequenceEquals(T) is true exactly when S and T hold the same elements.
C9_SequenceEqualsAnyHandle ==
    op.name = "sequenceEquals"
    => /\ op.fn = "self" => result.value = TRUE
       /\ result.value = (Elements = Contents(op.other))

\* C9 as amended: S.sequenceEquals(S) is true for every handle over a
\* restartable source, and S.sequenceEquals(T), T a handle whose cursor is
\* independent of S's, is true exactly when S and T hold the same elements.
C9_SequenceEqualsRestartable ==
    op.name = "sequenceEquals"
    => /\ (op.fn = "self" /\ Restartable(source)) => result.value = TRUE
       /\ op.fn = "other" => result.value = (Elements = Contents(op.other))

\* a restartable handle of two or more elements compared with itself
C9_Witness ==
    /\ op.name = "sequenceEquals" /\ op.fn = "self"
    /\ Restartable(source)
    /\ Len(Elements) >= 2
    /\ result.value = TRUE

\* C10: sort() without a comparator returns the non-negative integers of the
\* source as a permutation in ascending numeric order.
C10_DefaultSortIsNumeric ==
    (/\ op.name = "sort" /\ op.fn = "none"
     /\ \A i \in 1 .. Len(Elements) : Elements[i] >= 0)
    => /\ IsPermutation(result.value.items, Elements)
       /\ \A i \in 1 .. Len(Elements) - 1 :
             result.value.items[i] <= result.value.items[i + 1]

\* the element strings of a rendered sequence, in order
RenderedElements(tokens) == SelectSeq(tokens, LAMBDA k : k.t = "element")

\* C11: toString with limit L >= 0 renders, between prefix and postfix, the
\* first min(L, length) elements in source order joined by the separator, and
\* the truncation marker exactly when the sequence has more than L elements;
\* without a limit it renders every element and no marker.
C11_ToStringTruncatesAtLimit ==
    op.name = "toString"
    => LET tokens == result.value
           shown == IF op.fn = "limit" THEN Min2(op.n, Len(Elements))
                    ELSE Len(Elements)
       IN  /\ tokens[1] = PrefixToken
           /\ tokens[Len(tokens)] = PostfixToken
           /\ RenderedElements(tokens)
                = [i \in 1 .. shown |-> JsonStringify(Elements[i])]
           /\ \A i \in 1 .. Len(tokens) - 1 :
                 tokens[i].t = "element"
                    => tokens[i + 1].t \in {"separator", "postfix"}
           /\ (\E i \in 1 .. Len(tokens) : tokens[i] = TruncateToken)
                 <=> (op.fn = "limit" /\ Len(Elements) > op.n)

RECURSIVE FoldFrom(_, _, _)
\* combine(...combine(combine(seed, e0), e1)..., ek)
FoldFrom(combine, seed, e) ==
    IF Len(e) = 0 THEN seed
    ELSE Reducer(combine, FoldFrom(combine, seed, Front(e)), e[Len(e)])

\* C12: a call of fold, minmax, indexOf, findIndex, lastIndexOf or
\* findLastIndex requests exactly one cursor and pulls every source element at
\* most once; so fold combines every element from the first on, and minmax of
\* a non-empty sequence returns both a minimum and a maximum.
C12_TerminalWalksOnce ==
    op.name \in {"fold", "minmax", "indexOf", "findIndex", "lastIndexOf",
                 "findLastIndex"}
    => /\ heap.iters = 1
       /\ heap.pulls + heap.calls <= Len(Elements)
       /\ op.name = "fold" => result.value = FoldFrom(op.fn, op.n, Elements)
       /\ (op.name = "minmax" /\ Len(Elements) > 0)
          => /\ result.value.def
             /\ \A i \in 1 .. Len(Elements) :
                   /\ Compare(op.fn, Elements[i], result.value.val[1]) # "Less"
                   /\ Compare(op.fn, Elements[i], result.value.val[2]) # "Greater"

\* the zero-based positions of the elements the call looks for
Matches ==
    {i \in 0 .. Len(Elements) - 1 :
        IF op.name \in {"indexOf", "lastIndexOf"} THEN Elements[i + 1] = op.n
        ELSE Predicate(op.fn, Elements[i + 1])}

\* C15: lastIndexOf(v) returns the greatest zero-based position of an element
\* equal to v, and undefined when no element equals v.
C15_LastIndexOfIsGreatestMatch ==
    op.name = "lastIndexOf"
    => result.value = IF Matches = {} THEN Undef
                      ELSE Val(CHOOSE i \in Matches : \A j \in Matches : j <= i)

\* C16: indexOf(v) and findIndex(p) return the least zero-based position of a
\* matching element, and undefined when no element matches.
C16_IndexOfIsLeastMatch ==
    op.name \in {"indexOf", "findIndex"}
    => result.value = IF Matches = {} THEN Undef
                      ELSE Val(CHOOSE i \in Matches : \A j \in Matches : i <= j)

====
